---------------------------- MODULE Spec2Model ----------------------------
(***************************************************************************)
(* A model of video_organise.py (the Organizer) and fix_structure.py (the   *)
(* Compliance Scanner) of pokle/video-organise.                            *)
(*                                                                         *)
(* File and directory names are sequences of one-character strings, so     *)
(* that the regular expression, the suffix test and strftime are computed  *)
(* character by character.  A path is a sequence of names.  A date is a    *)
(* record [year, month, day].                                              *)
(***************************************************************************)
EXTENDS Integers, Sequences, FiniteSets, TLC

VARIABLES
    fs,          \* the filesystem: a function from the existing paths to entries
    approve,     \* --approve of the current run
    move,        \* --move of the current run
    pc,          \* where main is: "start", "plan", "process", "done", "interrupted",
                 \* "scan_start", "scan_plan", "scan_mkdir", "scan_mv"; "idle": not run
    files,       \* main's list `files`
    idx,         \* position of the running for loop in its list
    to_copy,     \* main's list `to_copy` of <<src, dest>> pairs
    skipped,     \* main's list `skipped`
    total_size,  \* main's `total_size`
    exit_code,   \* <<status>> once the run has ended, <<>> before
    run,         \* number of the current run of main (1, 2, ...)
    fs0,         \* the filesystem as the current run found it
    prev,        \* what the previous run was and computed
    arg,         \* the argument of a call of one function on its own
    ret,         \* the value that call returned
    dirs_to_create,  \* fix_structure.main's set `dirs_to_create`
    moves,       \* fix_structure.main's list `moves` of <<source, target>> pairs
    out          \* the lines fix_structure.main has written, oldest first

vars == <<fs, approve, move, pc, files, idx, to_copy, skipped, total_size,
          exit_code, run, fs0, prev, arg, ret, dirs_to_create, moves, out>>

\* the variables of fix_structure.main alone
scanVars == <<dirs_to_create, moves, out>>

mainVars == <<fs, approve, move, pc, files, idx, to_copy, skipped, total_size,
              exit_code, run, fs0, prev, scanVars>>

-----------------------------------------------------------------------------
(* Characters *)

Digits == <<"0", "1", "2", "3", "4", "5", "6", "7", "8", "9">>

Upper == <<"A", "B", "C", "D", "E", "F", "G", "H", "I", "J", "K", "L", "M",
           "N", "O", "P", "Q", "R", "S", "T", "U", "V", "W", "X", "Y", "Z">>

Lower == <<"a", "b", "c", "d", "e", "f", "g", "h", "i", "j", "k", "l", "m",
           "n", "o", "p", "q", "r", "s", "t", "u", "v", "w", "x", "y", "z">>

\* re's \d on the ASCII characters of the model
IsDigit(c) == \E i \in 1..10 : Digits[i] = c

\* int() of one digit
DigitVal(c) == (CHOOSE i \in 1..10 : Digits[i] = c) - 1

\* int() of a sequence of digits
RECURSIVE IntOf(_)
IntOf(s) ==
    IF s = <<>> THEN 0
    ELSE 10 * IntOf(SubSeq(s, 1, Len(s) - 1)) + DigitVal(s[Len(s)])

\* str.lower() of one character
LowerChar(c) ==
    IF \E i \in 1..26 : Upper[i] = c
    THEN Lower[CHOOSE i \in 1..26 : Upper[i] = c]
    ELSE c

\* str.lower()
lower(s) == [i \in 1..Len(s) |-> LowerChar(s[i])]

\* str.startswith
StartsWith(s, p) == Len(s) >= Len(p) /\ SubSeq(s, 1, Len(p)) = p

-----------------------------------------------------------------------------
(* Paths (pathlib) *)

\* Path.name
PathName(p) == p[Len(p)]

\* Path.parent
PathParent(p) == SubSeq(p, 1, Len(p) - 1)

\* the / operator of Path
Join(p, nm) == Append(p, nm)

\* position of the last "." of a name, 0 when it has none (str.rfind + 1)
LastDot(nm) ==
    IF \E i \in 1..Len(nm) : nm[i] = "."
    THEN CHOOSE i \in 1..Len(nm) :
            nm[i] = "." /\ \A j \in (i + 1)..Len(nm) : nm[j] # "."
    ELSE 0

\* Path.suffix: the last dot and what follows it, unless the name starts or
\* ends with that dot
PathSuffix(p) ==
    LET nm == PathName(p)
        i  == LastDot(nm)
    IN  IF 1 < i /\ i < Len(nm) THEN SubSeq(nm, i, Len(nm)) ELSE <<>>

-----------------------------------------------------------------------------
(* Classifier *)

INSTA360_EXTENSIONS ==
    { <<".", "i", "n", "s", "v">>,
      <<".", "i", "n", "s", "p">>,
      <<".", "l", "r", "v">> }

INSTA360_FILENAMES ==
    { <<"f", "i", "l", "e", "i", "n", "f", "o", "_", "l", "i", "s", "t",
        ".", "l", "i", "s", "t">> }

\* is_insta360_file comparing the lower-cased name with the managed names
is_insta360_file_lowername(file_path) ==
    \/ lower(PathSuffix(file_path)) \in INSTA360_EXTENSIONS
    \/ lower(PathName(file_path)) \in INSTA360_FILENAMES

is_insta360_file(file_path) ==
    \/ lower(PathSuffix(file_path)) \in INSTA360_EXTENSIONS
    \/ PathName(file_path) \in INSTA360_FILENAMES

-----------------------------------------------------------------------------
(* Date Resolver *)

\* Python's None where a date is expected: no date has year 0
None == [year |-> 0, month |-> 0, day |-> 0]

\* datetime's leap-year rule
IsLeap(y) == (y % 4 = 0) /\ ((y % 100 # 0) \/ (y % 400 = 0))

\* datetime's days in a month
DaysInMonth(y, m) ==
    IF m = 2 THEN (IF IsLeap(y) THEN 29 ELSE 28)
    ELSE IF m \in {4, 6, 9, 11} THEN 30 ELSE 31

\* the year, month and day date() accepts
ValidDate(y, m, d) ==
    /\ 1 <= y /\ y <= 9999
    /\ 1 <= m /\ m <= 12
    /\ 1 <= d /\ d <= DaysInMonth(y, m)

MkDate(y, m, d) == [year |-> y, month |-> m, day |-> d]

FILENAME_PREFIXES == { <<"V", "I", "D">>, <<"L", "R", "V">>, <<"I", "M", "G">> }

\* FILENAME_DATE_PATTERN.match(name) is not None
FILENAME_DATE_PATTERN(nm) ==
    /\ Len(nm) >= 13
    /\ SubSeq(nm, 1, 3) \in FILENAME_PREFIXES
    /\ nm[4] = "_"
    /\ \A i \in 5..12 : IsDigit(nm[i])
    /\ nm[13] = "_"

\* the outcome of a call that raised ValueError
ValueError == [year |-> -1, month |-> -1, day |-> -1]

\* date(year, month, day)
date(y, m, d) == IF ValidDate(y, m, d) THEN MkDate(y, m, d) ELSE ValueError

\* get_date_from_filename without its try/except: the ValueError leaves the function
get_date_from_filename_uncaught(file_path) ==
    LET nm == PathName(file_path) IN
    IF FILENAME_DATE_PATTERN(nm)
    THEN date(IntOf(SubSeq(nm, 5, 8)), IntOf(SubSeq(nm, 9, 10)),
              IntOf(SubSeq(nm, 11, 12)))
    ELSE None

\* get_date_from_filename reading the day before the month
get_date_from_filename_swapped(file_path) ==
    LET nm == PathName(file_path) IN
    IF FILENAME_DATE_PATTERN(nm)
    THEN LET made == date(IntOf(SubSeq(nm, 5, 8)), IntOf(SubSeq(nm, 11, 12)),
                          IntOf(SubSeq(nm, 9, 10)))
         IN  IF made = ValueError THEN None ELSE made
    ELSE None

get_date_from_filename(file_path) ==
    LET nm == PathName(file_path) IN
    IF FILENAME_DATE_PATTERN(nm)
    THEN LET year  == IntOf(SubSeq(nm, 5, 8))
             month == IntOf(SubSeq(nm, 9, 10))
             day   == IntOf(SubSeq(nm, 11, 12))
             made  == date(year, month, day)
         IN  IF made = ValueError THEN None ELSE made
    ELSE None

\* date.fromtimestamp for a timestamp in whole seconds, in a zone at UTC:
\* the civil date of the day number ts \div 86400 counted from 1970-01-01
fromtimestamp(ts) ==
    LET z   == (ts \div 86400) + 719468
        era == z \div 146097
        doe == z - era * 146097
        yoe == (doe - doe \div 1460 + doe \div 36524 - doe \div 146096) \div 365
        doy == doe - (365 * yoe + yoe \div 4 - yoe \div 100)
        mp  == (5 * doy + 2) \div 153
        d   == doy - (153 * mp + 2) \div 5 + 1
        m   == IF mp < 10 THEN mp + 3 ELSE mp - 9
        y   == yoe + era * 400 + (IF m <= 2 THEN 1 ELSE 0)
    IN  MkDate(y, m, d)

\* getattr(stat, "st_birthtime", None) or stat.st_mtime: stat.has_birthtime says
\* whether the platform's stat result has the attribute; None and 0 are falsy
get_file_date_from_filesystem(stat) ==
    LET timestamp == IF stat.has_birthtime /\ stat.birthtime # 0
                     THEN stat.birthtime
                     ELSE stat.mtime
    IN  fromtimestamp(timestamp)

\* file_path is the path, stat what file_path.stat() returns
get_file_date(file_path, stat) ==
    LET filename_date == get_date_from_filename(file_path) IN
    IF filename_date # None
    THEN filename_date
    ELSE get_file_date_from_filesystem(stat)

\* the decimal digits of n, zero-padded to width
RECURSIVE Pad(_, _)
Pad(n, width) ==
    IF width = 0 THEN <<>>
    ELSE Append(Pad(n \div 10, width - 1), Digits[(n % 10) + 1])

\* date.strftime("%Y-%m-%d"), for years of four digits
strftime(d) == Pad(d.year, 4) \o <<"-">> \o Pad(d.month, 2) \o <<"-">> \o Pad(d.day, 2)

-----------------------------------------------------------------------------
(* The filesystem *)
(*                                                                         *)
(* fs maps each existing path to its entry.  kind is "file", "dir" or      *)
(* "link"; a file has a size, a content, an mtime and, where the platform  *)
(* has one, a birthtime; a link has a target path.  The fields a kind does *)
(* not use hold 0, FALSE or <<>>.                                          *)

FileEntry(size, content, mtime, has_birthtime, birthtime) ==
    [kind |-> "file", size |-> size, content |-> content, mtime |-> mtime,
     has_birthtime |-> has_birthtime, birthtime |-> birthtime, target |-> <<>>]

DirEntry ==
    [kind |-> "dir", size |-> 0, content |-> <<>>, mtime |-> 0,
     has_birthtime |-> FALSE, birthtime |-> 0, target |-> <<>>]

LinkEntry(target) ==
    [kind |-> "link", size |-> 0, content |-> <<>>, mtime |-> 0,
     has_birthtime |-> FALSE, birthtime |-> 0, target |-> target]

\* where a path leads once a symbolic link at it is followed
Resolve(f, p) ==
    IF p \in DOMAIN f /\ f[p].kind = "link" THEN f[p].target ELSE p

\* Path.exists(): follows symbolic links, False for a dangling one
exists(f, p) == Resolve(f, p) \in DOMAIN f

\* Path.is_file(): follows symbolic links
is_file(f, p) == exists(f, p) /\ f[Resolve(f, p)].kind = "file"

\* Path.is_dir(): follows symbolic links
is_dir(f, p) == exists(f, p) /\ f[Resolve(f, p)].kind = "dir"

\* Path.stat(): follows symbolic links
stat(f, p) == f[Resolve(f, p)]

\* Path.rglob("*"): every entry below root
rglob(f, root) ==
    { p \in DOMAIN f : Len(p) > Len(root) /\ SubSeq(p, 1, Len(root)) = root }

\* f with path p set to entry e
Put(f, p, e) == [q \in DOMAIN f \cup {p} |-> IF q = p THEN e ELSE f[q]]

\* f without path p
Remove(f, p) == [q \in DOMAIN f \ {p} |-> f[q]]

\* Path.mkdir(parents=True, exist_ok=True): p and its missing ancestors
RECURSIVE mkdir(_, _)
mkdir(f, p) ==
    IF p = <<>> \/ p \in DOMAIN f THEN f
    ELSE Put(mkdir(f, PathParent(p)), p, DirEntry)

\* the time a file created during the run is born: after every time of the model
Now == 1705400000 + 86400

\* shutil.copy2(src, dest): the content and the times of src written at dest,
\* through a symbolic link at dest; a file it creates is born now
copy2(f, src, dest) ==
    LET s == stat(f, src)
        d == Resolve(f, dest)
    IN  Put(f, d, FileEntry(s.size, s.content, s.mtime, s.has_birthtime,
                             IF d \in DOMAIN f THEN f[d].birthtime
                             ELSE IF s.has_birthtime THEN Now ELSE 0))

\* shutil.move(src, dest) within one filesystem, dest not a directory:
\* os.rename, which replaces the entry at dest by the one at src
shutil_move(f, src, dest) == Remove(Put(f, dest, f[src]), src)

-----------------------------------------------------------------------------
(* Organizer *)

\* should_copy comparing the sizes with > instead of !=
should_copy_grown(f, src, dest) ==
    IF ~exists(f, dest) THEN TRUE
    ELSE stat(f, src).size > stat(f, dest).size

\* should_copy reading the destination without following a symbolic link
should_copy_lstat(f, src, dest) ==
    IF dest \notin DOMAIN f THEN TRUE
    ELSE stat(f, src).size # f[dest].size

should_copy(f, src, dest) ==
    IF ~exists(f, dest) THEN TRUE
    ELSE stat(f, src).size # stat(f, dest).size

\* the constant path segment of line 151
insta360 == <<"i", "n", "s", "t", "a", "3", "6", "0">>

\* dest_path_of naming the destination after the stem of the source file
dest_path_of_stem(f, destination_directory, src_file) ==
    LET file_date   == get_file_date(src_file, stat(f, src_file))
        date_folder == strftime(file_date)
        nm          == PathName(src_file)
        stem        == SubSeq(nm, 1, Len(nm) - Len(PathSuffix(src_file)))
    IN  Join(Join(Join(destination_directory, date_folder), insta360), stem)

\* line 149-151: the destination of one source file
dest_path_of(f, destination_directory, src_file) ==
    LET file_date   == get_file_date(src_file, stat(f, src_file))
        date_folder == strftime(file_date)
    IN  Join(Join(Join(destination_directory, date_folder), insta360),
             PathName(src_file))

\* the body of the processing loop with --approve ignored
process_unguarded(f, appr, mv, src_file, dest_path) ==
    LET made == mkdir(f, PathParent(dest_path))
    IN  IF mv THEN shutil_move(made, src_file, dest_path)
        ELSE copy2(made, src_file, dest_path)

\* the body of the processing loop with the test of --approve negated
process_inverted(f, appr, mv, src_file, dest_path) ==
    IF ~appr
    THEN LET made == mkdir(f, PathParent(dest_path))
         IN  IF mv THEN shutil_move(made, src_file, dest_path)
             ELSE copy2(made, src_file, dest_path)
    ELSE f

\* lines 173-182: the body of the processing loop, as the filesystem it leaves
process(f, appr, mv, src_file, dest_path) ==
    IF appr
    THEN LET made == mkdir(f, PathParent(dest_path))
         IN  IF mv THEN shutil_move(made, src_file, dest_path)
             ELSE copy2(made, src_file, dest_path)
    ELSE f

\* line 138: the files main collects, as a set
collected(f, source_directory) ==
    { p \in rglob(f, source_directory) : is_file(f, p) /\ is_insta360_file(p) }

\* the orders in which rglob may yield the members of S
Orders(S) ==
    { q \in [1..Cardinality(S) -> S] :
        \A i, j \in 1..Cardinality(S) : i # j => q[i] # q[j] }

-----------------------------------------------------------------------------
(* The trees the runs of the model start from *)

MaxFiles == 2   \* files in the source tree
MaxSize  == 2   \* a file's size in bytes is in 1..MaxSize
MaxRuns  == 2   \* runs of main in a row

SRC == <<"s", "r", "c">>
DST == <<"d", "s", "t">>

source_directory      == <<SRC>>
destination_directory == <<DST>>

Camera01 == <<"C", "a", "m", "e", "r", "a", "0", "1">>
Camera02 == <<"C", "a", "m", "e", "r", "a", "0", "2">>
DCIM     == <<"D", "C", "I", "M">>
MISC     == <<"M", "I", "S", "C">>

video_insv == <<"v", "i", "d", "e", "o", ".", "i", "n", "s", "v">>
video_lrv  == <<"v", "i", "d", "e", "o", ".", "l", "r", "v">>
notes_txt  == <<"n", "o", "t", "e", "s", ".", "t", "x", "t">>
VID_16     == <<"V", "I", "D", "_", "2", "0", "2", "4", "0", "1", "1", "6",
                "_", "1", ".", "i", "n", "s", "v">>

Date15     == <<"2", "0", "2", "4", "-", "0", "1", "-", "1", "5">>
Date15Trip == Date15 \o <<" ", "T", "r", "i", "p">>
Date15B    == Date15 \o <<"-", "B">>

\* 2024-01-15 12:00:00 UTC, the mtime of every file of these trees
Noon15 == 1705276800 + 43200

\* the files a source tree is drawn from
SourceUniverse ==
    { <<SRC, Camera01, video_insv>>,
      <<SRC, Camera02, video_insv>>,
      <<SRC, Camera01, video_lrv>>,
      <<SRC, DCIM, MISC, video_lrv>>,
      <<SRC, VID_16>>,
      <<SRC, notes_txt>> }

\* the directories directly under the destination a tree is drawn from
DestDirUniverse == { Date15, Date15Trip, Date15B }

\* the proper ancestors of a path
Ancestors(p) == { SubSeq(p, 1, k) : k \in 1..(Len(p) - 1) }

\* the sizes a file of the source tree may have
SizesOf(p) == IF PathName(p) = video_insv THEN 1..MaxSize ELSE {1}

\* the tree with source files srcs of sizes sz, destination directories dirs
\* and the files pre (a function from paths to sizes) already in the destination
Tree(srcs, sz, dirs, pre) ==
    LET destDirs == { <<DST, d>> : d \in dirs }
        allDirs  == {source_directory, destination_directory} \cup destDirs
                    \cup UNION { Ancestors(p) : p \in srcs \cup DOMAIN pre }
    IN  [p \in allDirs \cup srcs \cup DOMAIN pre |->
            IF p \in srcs THEN FileEntry(sz[p], p, Noon15, FALSE, 0)
            ELSE IF p \in DOMAIN pre THEN FileEntry(pre[p], <<>>, Noon15, FALSE, 0)
            ELSE DirEntry]

\* at most one video.insv already in the insta360 folder of one destination directory
PreChoices(dirs) ==
    { [p \in {} |-> 0] } \cup
    { [p \in {<<DST, d, insta360, video_insv>>} |-> n] : d \in dirs, n \in 1..MaxSize }

NoPrev == [approve |-> FALSE, move |-> FALSE, files |-> <<>>, to_copy |-> <<>>,
           skipped |-> <<>>, total_size |-> 0, completed |-> FALSE]

Init ==
    /\ \E srcs \in SUBSET SourceUniverse :
       \E dirs \in SUBSET DestDirUniverse :
       \E pre \in PreChoices(dirs) :
       \E sz \in [srcs -> 1..MaxSize] :
          /\ Cardinality(srcs) <= MaxFiles
          /\ \A p \in srcs : sz[p] \in SizesOf(p)
          /\ fs = Tree(srcs, sz, dirs, pre)
    /\ approve \in BOOLEAN
    /\ move \in BOOLEAN
    /\ pc = "start"
    /\ files = <<>>
    /\ idx = 1
    /\ to_copy = <<>>
    /\ skipped = <<>>
    /\ total_size = 0
    /\ exit_code = <<>>
    /\ run = 1
    /\ fs0 = fs
    /\ prev = NoPrev
    /\ arg = <<>>
    /\ ret = <<>>
    /\ dirs_to_create = {}
    /\ moves = <<>>
    /\ out = <<>>

-----------------------------------------------------------------------------
(* main *)

\* lines 137-146: collect the files; exit when there are none
Start ==
    /\ pc = "start"
    /\ \E order \in Orders(collected(fs, source_directory)) :
          /\ files' = order
          /\ IF order = <<>>
             THEN pc' = "done" /\ exit_code' = <<0>>
             ELSE pc' = "plan" /\ exit_code' = exit_code
    /\ idx' = 1
    /\ to_copy' = <<>>
    /\ skipped' = <<>>
    /\ total_size' = 0
    /\ UNCHANGED <<fs, approve, move, run, fs0, prev, arg, ret, scanVars>>

\* lines 148-157: one iteration of the planning loop
PlanFile ==
    /\ pc = "plan"
    /\ idx <= Len(files)
    /\ LET src_file  == files[idx]
           dest_path == dest_path_of(fs, destination_directory, src_file)
       IN  IF should_copy(fs, src_file, dest_path)
           THEN /\ to_copy' = Append(to_copy, <<src_file, dest_path>>)
                /\ total_size' = total_size + stat(fs, src_file).size
                /\ skipped' = skipped
           ELSE /\ skipped' = Append(skipped, src_file)
                /\ UNCHANGED <<to_copy, total_size>>
    /\ IF idx = Len(files)
       THEN pc' = "process" /\ idx' = 1
       ELSE pc' = pc /\ idx' = idx + 1
    /\ UNCHANGED <<fs, approve, move, files, exit_code, run, fs0, prev, arg, ret,
                   scanVars>>

\* lines 172-182: one iteration of the processing loop
ProcessFile ==
    /\ pc = "process"
    /\ idx <= Len(to_copy)
    /\ fs' = process(fs, approve, move, to_copy[idx][1], to_copy[idx][2])
    /\ idx' = idx + 1
    /\ UNCHANGED <<approve, move, pc, files, to_copy, skipped, total_size,
                   exit_code, run, fs0, prev, arg, ret, scanVars>>

\* lines 184-186: the loop is over and main returns
Finish ==
    /\ pc = "process"
    /\ idx > Len(to_copy)
    /\ pc' = "done"
    /\ exit_code' = <<0>>
    /\ UNCHANGED <<fs, approve, move, files, idx, to_copy, skipped, total_size,
                   run, fs0, prev, arg, ret, scanVars>>

\* the command is invoked again on the same two directories, with options
\* of its own (lines 116-126)
NextRun ==
    /\ pc \in {"done", "interrupted"}
    /\ run < MaxRuns
    /\ run' = run + 1
    /\ approve' \in BOOLEAN
    /\ move' \in BOOLEAN
    /\ pc' = "start"
    /\ prev' = [approve |-> approve, move |-> move, files |-> files,
                to_copy |-> to_copy, skipped |-> skipped,
                total_size |-> total_size, completed |-> (pc = "done")]
    /\ fs0' = fs
    /\ files' = <<>>
    /\ idx' = 1
    /\ to_copy' = <<>>
    /\ skipped' = <<>>
    /\ total_size' = 0
    /\ exit_code' = <<>>
    /\ UNCHANGED <<fs, arg, ret, scanVars>>

Next == Start \/ PlanFile \/ ProcessFile \/ Finish \/ NextRun

Spec == Init /\ [][Next]_vars

\* the process is ended from outside between two steps of main: what has
\* been done stays done, main does not return
Interrupt ==
    /\ pc \in {"start", "plan", "process"}
    /\ pc' = "interrupted"
    /\ UNCHANGED <<fs, approve, move, files, idx, to_copy, skipped, total_size,
                   exit_code, run, fs0, prev, arg, ret, scanVars>>

\* shutil.copyfile inside copy2 has opened the destination for writing and
\* written the first n bytes of src: the whole content when n is the size of
\* src, and in any case not yet the times of src, which copystat sets last
copyfile_partial(f, src, dest, n) ==
    LET s == stat(f, src)
        d == Resolve(f, dest)
    IN  Put(f, d, FileEntry(n, IF n = s.size THEN s.content ELSE <<>>, Now,
                            s.has_birthtime,
                            IF d \in DOMAIN f THEN f[d].birthtime
                            ELSE IF s.has_birthtime THEN Now ELSE 0))

\* the process is ended from outside within lines 174-179 of one transfer:
\* after mkdir (line 174, both modes) has made the first missing directory
\* or all of them; or within copy2, after copyfile has written the first n
\* bytes of the destination, up to all of them, and before copystat has set
\* the times. os.rename of shutil.move is atomic; between two file systems
\* shutil.move is copy2 followed by unlink, and can be ended within copy2 or
\* between the two, with the source still there
InterruptCopy ==
    /\ pc = "process"
    /\ idx <= Len(to_copy)
    /\ approve
    /\ LET src_file  == to_copy[idx][1]
           dest_path == to_copy[idx][2]
           made      == mkdir(fs, PathParent(dest_path))
       IN  \/ fs' = mkdir(fs, PathParent(PathParent(dest_path)))
           \/ fs' = made
           \/ \E n \in 0..stat(fs, src_file).size :
                 fs' = copyfile_partial(made, src_file, dest_path, n)
           \/ move /\ fs' = copy2(made, src_file, dest_path)
    /\ pc' = "interrupted"
    /\ UNCHANGED <<approve, move, files, idx, to_copy, skipped, total_size,
                   exit_code, run, fs0, prev, arg, ret, scanVars>>

NextRecover == Next \/ Interrupt \/ InterruptCopy

SpecRecover == Init /\ [][NextRecover]_vars

-----------------------------------------------------------------------------
(* Calls of one function on its own *)

\* the variables of main while main does not run
MainIdle ==
    /\ approve = FALSE
    /\ move = FALSE
    /\ pc = "idle"
    /\ files = <<>>
    /\ idx = 1
    /\ to_copy = <<>>
    /\ skipped = <<>>
    /\ total_size = 0
    /\ exit_code = <<>>
    /\ run = 0
    /\ prev = NoPrev
    /\ dirs_to_create = {}
    /\ moves = <<>>
    /\ out = <<>>

PathA == <<SRC, Camera01, video_insv>>
PathB == <<DST, Date15, insta360, video_insv>>
PathC == <<SRC, Camera02, video_insv>>

\* a tree for should_copy: PathA a file of sa bytes; PathC a file of sc bytes,
\* absent when sc = 0; PathB absent, a file of b.size bytes or a symbolic link
CopyTree(sa, sc, b) ==
    LET present == {PathA} \cup (IF sc = 0 THEN {} ELSE {PathC})
                   \cup (IF b.kind = "absent" THEN {} ELSE {PathB})
        allDirs == {source_directory, destination_directory}
                   \cup UNION { Ancestors(p) : p \in present }
    IN  [p \in allDirs \cup present |->
            IF p = PathA THEN FileEntry(sa, PathA, Noon15, FALSE, 0)
            ELSE IF p = PathC THEN FileEntry(sc, PathC, Noon15, FALSE, 0)
            ELSE IF p = PathB
                 THEN (IF b.kind = "link" THEN LinkEntry(b.target)
                       ELSE FileEntry(b.size, <<>>, Noon15, FALSE, 0))
            ELSE DirEntry]

\* what PathB may be
PathBChoices ==
    { [kind |-> "absent", size |-> 0, target |-> <<>>] }
    \cup { [kind |-> "file", size |-> n, target |-> <<>>] : n \in 1..MaxSize }
    \cup { [kind |-> "link", size |-> 0, target |-> t] : t \in {PathA, PathC} }

InitCopy ==
    /\ \E sa \in 1..MaxSize, sc \in 0..MaxSize, b \in PathBChoices :
          fs = CopyTree(sa, sc, b)
    /\ fs0 = fs
    /\ MainIdle
    /\ \E src \in { p \in {PathA, PathB, PathC} : is_file(fs, p) },
          dest \in {PathA, PathB, PathC} :
          arg = [fn |-> "should_copy", src |-> src, dest |-> dest]
    /\ ret = <<>>

\* should_copy(src, dest) is called and returns
CallShouldCopy ==
    /\ arg.fn = "should_copy"
    /\ ret = <<>>
    /\ ret' = <<should_copy(fs, arg.src, arg.dest)>>
    /\ UNCHANGED <<mainVars, arg>>

NextCopy == CallShouldCopy

SpecCopy == InitCopy /\ [][NextCopy]_vars

\* the file names get_file_date is called on: a prefix, "_", the digits of a
\* year, a month and a day, a separator and a tail
NameOf(prefix, token, sep) ==
    prefix \o <<"_">> \o Pad(token.year, 4) \o Pad(token.month, 2)
           \o Pad(token.day, 2) \o <<sep>> \o <<"1", ".", "i", "n", "s", "v">>

NamePrefixes ==
    { <<"V", "I", "D">>, <<"L", "R", "V">>, <<"I", "M", "G">>,
      <<"M", "O", "V">>, <<"v", "i", "d">> }

\* year, month, day triples that are dates of the calendar
CalendarTokens ==
    { MkDate(2024, 1, 15), MkDate(2024, 2, 29), MkDate(2000, 2, 29),
      MkDate(2023, 12, 31), MkDate(1, 1, 1), MkDate(9999, 12, 31) }

\* year, month, day triples that are not
NonCalendarTokens ==
    { MkDate(2023, 2, 29), MkDate(2024, 2, 30), MkDate(2024, 13, 1),
      MkDate(0, 1, 1), MkDate(2024, 1, 0), MkDate(1900, 2, 29),
      MkDate(2024, 0, 10), MkDate(2024, 4, 31) }

\* timestamps, each with the calendar date it falls on (UTC)
KnownStamps ==
    { <<0, MkDate(1970, 1, 1)>>,
      <<Noon15 - 43201, MkDate(2024, 1, 14)>>,
      <<Noon15, MkDate(2024, 1, 15)>>,
      <<Noon15 + 86400, MkDate(2024, 1, 16)>> }

Stamps == { k[1] : k \in KnownStamps }

\* the stat results of the model: with and without a birthtime
StatChoices ==
    { FileEntry(1, <<>>, mt, FALSE, 0) : mt \in Stamps }
    \cup { FileEntry(1, <<>>, mt, TRUE, bt) : mt \in Stamps, bt \in Stamps }

InitDate ==
    /\ fs = [p \in {source_directory} |-> DirEntry]
    /\ fs0 = fs
    /\ MainIdle
    /\ \E prefix \in NamePrefixes,
          token \in CalendarTokens \cup NonCalendarTokens,
          sep \in {"_", "-"},
          st \in StatChoices :
          arg = [fn |-> "get_file_date", prefix |-> prefix, token |-> token,
                 sep |-> sep, stat |-> st,
                 path |-> <<SRC, NameOf(prefix, token, sep)>>]
    /\ ret = <<>>

\* get_file_date(file_path) is called and returns or raises
CallGetFileDate ==
    /\ arg.fn = "get_file_date"
    /\ ret = <<>>
    /\ ret' = <<get_file_date(arg.path, arg.stat)>>
    /\ UNCHANGED <<mainVars, arg>>

NextDate == CallGetFileDate

SpecDate == InitDate /\ [][NextDate]_vars

-----------------------------------------------------------------------------
(* What the specification and the tests name and video_organise.py lacks *)

\* section 4.5 step 1 and TestIsInExcludedFolder: a directory named MISC is
\* among the ancestors of the file
is_in_excluded_folder(file_path) ==
    \E i \in 1..(Len(file_path) - 1) : file_path[i] = MISC

\* date_folder_matches taking any name that begins with the date
date_folder_matches_any_prefix(f, root, date_string) ==
    { p \in DOMAIN f :
        /\ Len(p) = Len(root) + 1
        /\ PathParent(p) = root
        /\ f[p].kind = "dir"
        /\ StartsWith(PathName(p), date_string) }

\* section 4.3: the directories directly under the root that carry the date
date_folder_matches(f, root, date_string) ==
    { p \in DOMAIN f :
        /\ Len(p) = Len(root) + 1
        /\ PathParent(p) = root
        /\ f[p].kind = "dir"
        /\ \/ PathName(p) = date_string
           \/ StartsWith(PathName(p), Append(date_string, " "))
           \/ StartsWith(PathName(p), Append(date_string, "-")) }

\* section 4.3 and TestFindDateFolder: no match gives the default path, one
\* match that directory, several the list of them
find_date_folder(f, root, date_string) ==
    LET matches == date_folder_matches(f, root, date_string) IN
    IF matches = {}
    THEN [result |-> "NoMatch", paths |-> {Join(root, date_string)}]
    ELSE IF Cardinality(matches) = 1
    THEN [result |-> "SingleMatch", paths |-> matches]
    ELSE [result |-> "MultipleMatch", paths |-> matches]

Date150  == Date15 \o <<"0">>
Date16   == <<"2", "0", "2", "4", "-", "0", "1", "-", "1", "6">>
Date15file_txt == Date15 \o <<"-", "f", "i", "l", "e", ".", "t", "x", "t">>

\* the names an entry directly under the root may have
FolderNames == { Date15, Date15Trip, Date15B, Date150, Date15file_txt }

\* a destination root whose entries are the names of `kinds`, each a directory
\* or a regular file, with a directory named after the date one level further
\* down when `nested`
FolderTree(kinds, nested) ==
    LET below == IF nested THEN { <<DST, Camera01>>, <<DST, Camera01, Date15>> }
                 ELSE {}
    IN  [p \in {destination_directory} \cup below
               \cup { <<DST, n>> : n \in DOMAIN kinds } |->
            IF p \in below \cup {destination_directory} THEN DirEntry
            ELSE IF kinds[PathName(p)] = "dir" THEN DirEntry
            ELSE FileEntry(1, <<>>, Noon15, FALSE, 0)]

InitFolder ==
    /\ \E names \in SUBSET FolderNames :
       \E kinds \in [names -> {"dir", "file"}] :
       \E nested \in BOOLEAN :
          fs = FolderTree(kinds, nested)
    /\ fs0 = fs
    /\ MainIdle
    /\ \E ds \in {Date15, Date16} :
          arg = [fn |-> "find_date_folder", root |-> destination_directory,
                 date_string |-> ds]
    /\ ret = <<>>

\* find_date_folder(root, date_string) is called and returns
CallFindDateFolder ==
    /\ arg.fn = "find_date_folder"
    /\ ret = <<>>
    /\ ret' = <<find_date_folder(fs, arg.root, arg.date_string)>>
    /\ UNCHANGED <<mainVars, arg>>

NextFolder == CallFindDateFolder

SpecFolder == InitFolder /\ [][NextFolder]_vars

-----------------------------------------------------------------------------
(* fix_structure.py (the Compliance Scanner) *)

\* fix_structure.py line 21
fix_structure_INSTA360_EXTENSIONS ==
    { <<".", "i", "n", "s", "v">>,
      <<".", "i", "n", "s", "p">>,
      <<".", "l", "r", "v">> }

\* fix_structure.py line 24
fix_structure_INSTA360_FILENAMES == { <<"f", "i", "l", "e", "i", "n", "f", "o", "_", "l", "i", "s", "t", ".", "l", "i", "s", "t">> }

\* fix_structure.py lines 27-29
fix_structure_is_insta360_file(file_path) ==
    \/ lower(PathSuffix(file_path)) \in fix_structure_INSTA360_EXTENSIONS
    \/ PathName(file_path) \in fix_structure_INSTA360_FILENAMES

\* the names is_insta360_file is called on, each with its extension
ClassStems ==
    { <<"v", "i", "d", "e", "o">>,
      <<"V", "I", "D", "E", "O">>,
      <<"f", "i", "l", "e", "i", "n", "f", "o", "_", "l", "i", "s", "t">>,
      <<"F", "I", "L", "E", "I", "N", "F", "O", "_", "L", "I", "S", "T">>,
      <<"o", "t", "h", "e", "r">>,
      <<"F", "i", "l", "e", "i", "n", "f", "o", "_", "l", "i", "s", "t">> }

ClassExts ==
    { <<".", "i", "n", "s", "v">>,
      <<".", "I", "N", "S", "V">>,
      <<".", "I", "n", "s", "v">>,
      <<".", "i", "n", "s", "p">>,
      <<".", "I", "N", "S", "P">>,
      <<".", "l", "r", "v">>,
      <<".", "L", "R", "V">>,
      <<".", "l", "i", "s", "t">>,
      <<".", "L", "I", "S", "T">>,
      <<".", "m", "p", "4">>,
      <<".", "i", "n", "s">>,
      <<".", "i", "n", "s", "v", "x">> }

ClassNames ==
    { [name |-> st \o e, ext |-> e] : st \in ClassStems, e \in ClassExts }
    \cup { [name |-> st, ext |-> <<>>] : st \in ClassStems }
    \cup { [name |-> <<".", "i", "n", "s", "v">>, ext |-> <<>>],
           [name |-> <<"v", "i", "d", "e", "o", ".", "i", "n", "s", "v", ".", "b", "a", "k">>, ext |-> <<".", "b", "a", "k">>],
           [name |-> <<"v", "i", "d", "e", "o", ".", "b", "a", "k", ".", "I", "N", "S", "V">>, ext |-> <<".", "I", "N", "S", "V">>] }

InitClass ==
    /\ fs = [p \in {source_directory} |-> DirEntry]
    /\ fs0 = fs
    /\ MainIdle
    /\ \E n \in ClassNames, tool \in {"video_organise", "fix_structure"} :
          arg = [fn |-> "is_insta360_file", tool |-> tool, name |-> n.name,
                 ext |-> n.ext, path |-> <<SRC, Camera01, n.name>>]
    /\ ret = <<>>

\* video_organise.is_insta360_file(file_path) is called and returns
CallIsInsta360File ==
    /\ arg.fn = "is_insta360_file"
    /\ arg.tool = "video_organise"
    /\ ret = <<>>
    /\ ret' = <<is_insta360_file(arg.path)>>
    /\ UNCHANGED <<mainVars, arg>>

\* fix_structure.is_insta360_file(file_path) is called and returns
CallFixStructureIsInsta360File ==
    /\ arg.fn = "is_insta360_file"
    /\ arg.tool = "fix_structure"
    /\ ret = <<>>
    /\ ret' = <<fix_structure_is_insta360_file(arg.path)>>
    /\ UNCHANGED <<mainVars, arg>>

NextClass == CallIsInsta360File \/ CallFixStructureIsInsta360File

SpecClass == InitClass /\ [][NextClass]_vars

\* the characters of the model's names in the order of their code points
Ascii ==
    <<" ", "-", ".", "/">> \o Digits \o Upper \o <<"_">> \o Lower

\* ord(c), up to the gaps between the code points
ord(c) == CHOOSE i \in 1..Len(Ascii) : Ascii[i] = c

\* str.__lt__: the first character that differs decides by its code point,
\* a proper prefix is smaller
StrLess(a, b) ==
    \E k \in 1..Len(b) :
        /\ Len(a) >= k - 1
        /\ \A i \in 1..(k - 1) : a[i] = b[i]
        /\ \/ Len(a) = k - 1
           \/ ord(a[k]) < ord(b[k])

\* PurePath.__lt__ of two paths of one flavour: the lists of their parts are
\* compared, the first part that differs decides, a proper prefix is smaller
PathLess(p, q) ==
    \E k \in 1..Len(q) :
        /\ Len(p) >= k - 1
        /\ \A i \in 1..(k - 1) : p[i] = q[i]
        /\ \/ Len(p) = k - 1
           \/ StrLess(p[k], q[k])

\* sorted() of a set of paths: each path at the place that the number of
\* smaller ones gives it
SortedPaths(S) ==
    LET smaller == [p \in S |-> Cardinality({ q \in S : PathLess(q, p) })]
    IN  [i \in 1..Cardinality(S) |-> CHOOSE p \in S : smaller[p] = i - 1]

\* tuple.__lt__ of two (source, target) pairs
MoveLess(a, b) ==
    \/ PathLess(a[1], b[1])
    \/ a[1] = b[1] /\ PathLess(a[2], b[2])

\* SortedMoves leaving the list in the order the files were found
SortedMoves_unsorted(ms) == ms

\* sorted() of a list of (source, target) pairs without repetition
SortedMoves(ms) ==
    LET S == { ms[i] : i \in 1..Len(ms) }
        smaller == [m \in S |-> Cardinality({ n \in S : MoveLess(n, m) })]
    IN  [i \in 1..Cardinality(S) |-> CHOOSE m \in S : smaller[m] = i - 1]

\* str() of an absolute path
RECURSIVE PathStr(_)
PathStr(p) ==
    IF p = <<>> THEN <<>>
    ELSE PathStr(SubSeq(p, 1, Len(p) - 1)) \o <<"/">> \o p[Len(p)]

\* str() of a natural number
RECURSIVE IntStr(_)
IntStr(n) ==
    IF n < 10 THEN <<Digits[n + 1]>>
    ELSE IntStr(n \div 10) \o <<Digits[(n % 10) + 1]>>

\* fix_structure.py line 18: ^\d{4}-\d{2}-\d{2}([ -].*)?$ on a name without
\* line breaks
DATE_FOLDER_PATTERN(nm) ==
    /\ Len(nm) >= 10
    /\ \A i \in {1, 2, 3, 4, 6, 7, 9, 10} : IsDigit(nm[i])
    /\ nm[5] = "-"
    /\ nm[8] = "-"
    /\ Len(nm) > 10 => nm[11] \in {" ", "-"}

\* lines 32-34
is_date_folder(folder) == DATE_FOLDER_PATTERN(PathName(folder))

\* get_date_folder returns None
NoFolder == <<>>

\* get_date_folder taking the first date folder anywhere above the file
get_date_folder_any_segment(file_path, base_dir) ==
    LET above == { k \in (Len(base_dir) + 1)..(Len(file_path) - 1) :
                     is_date_folder(SubSeq(file_path, 1, k)) }
    IN  IF above = {} THEN NoFolder
        ELSE SubSeq(file_path, 1, CHOOSE k \in above : \A j \in above : k <= j)

\* lines 37-46
get_date_folder(file_path, base_dir) ==
    LET parts == SubSeq(file_path, Len(base_dir) + 1, Len(file_path)) IN
    IF parts # <<>> /\ is_date_folder(Join(base_dir, parts[1]))
    THEN Join(base_dir, parts[1])
    ELSE NoFolder

\* is_compliant taking every file below the insta360 directory
is_compliant_below(file_path, date_folder) ==
    Join(date_folder, insta360) \in Ancestors(file_path)

\* lines 49-52
is_compliant(file_path, date_folder) ==
    PathParent(file_path) = Join(date_folder, insta360)

\* lines 55-57
shell_quote(path) == <<"\"">> \o PathStr(path) \o <<"\"">>

\* the fixed texts of the lines main writes
WARNING_TEXT ==
    <<"#", " ", "W", "a", "r", "n", "i", "n", "g", ":", " ", "N", "o", "n",
      "-", "c", "o", "m", "p", "l", "i", "a", "n", "t", " ", "f", "o", "l",
      "d", "e", "r", "s", " ", "f", "o", "u", "n", "d", " ", "i", "n", " ",
      "r", "o", "o", "t", ":">>

FOLDER_TEXT ==
    <<"#", " ", " ", " ">>

NO_FILES_TEXT ==
    <<"#", " ", "N", "o", " ", "I", "n", "s", "t", "a", "3", "6", "0", " ",
      "f", "i", "l", "e", "s", " ", "f", "o", "u", "n", "d", " ", "i", "n",
      " ", "s", "o", "u", "r", "c", "e", " ", "d", "i", "r", "e", "c", "t",
      "o", "r", "y", ".">>

ALL_COMPLIANT_TEXT ==
    <<"#", " ", "A", "l", "l", " ", "I", "n", "s", "t", "a", "3", "6", "0",
      " ", "f", "i", "l", "e", "s", " ", "a", "r", "e", " ", "a", "l", "r",
      "e", "a", "d", "y", " ", "c", "o", "m", "p", "l", "i", "a", "n", "t",
      ".">>

SHEBANG_TEXT ==
    <<"#", "!", "/", "u", "s", "r", "/", "b", "i", "n", "/", "e", "n", "v",
      " ", "b", "a", "s", "h">>

SET_X_TEXT ==
    <<"s", "e", "t", " ", "-", "x">>

MKDIR_TEXT ==
    <<"m", "k", "d", "i", "r", " ", "-", "p", " ">>

MV_TEXT ==
    <<"m", "v", " ">>

COUNT_TEXT ==
    <<" ", "f", "i", "l", "e", "s", " ", "t", "o", " ", "m", "o", "v", "e">>

\* a line written with typer.echo: the stream, what the line is, the paths it
\* names and its text
Line(stream, cmd, paths, text) ==
    [stream |-> stream, cmd |-> cmd, paths |-> paths, text |-> text]

\* lines 81-89: the warning about the directories of the root that are not
\* date folders
Warning(f, root) ==
    LET non_compliant_folders ==
            { d \in DOMAIN f : /\ Len(d) = Len(root) + 1
                               /\ PathParent(d) = root
                               /\ is_dir(f, d)
                               /\ ~is_date_folder(d) }
        sorted == SortedPaths(non_compliant_folders)
    IN  IF non_compliant_folders = {} THEN <<>>
        ELSE <<Line("err", "warning", <<>>, WARNING_TEXT)>>
             \o [i \in 1..Len(sorted) |->
                    Line("err", "folder", <<sorted[i]>>,
                         FOLDER_TEXT \o PathName(sorted[i]))]
             \o <<Line("err", "blank", <<>>, <<>>)>>

\* line 92
fix_structure_collected(f, root) ==
    { p \in rglob(f, root) : is_file(f, p) /\ fix_structure_is_insta360_file(p) }

\* what the command of line 131 does when the script is run: mkdir -p fails
\* and creates nothing when a regular file is in the way
sh_mkdir_p(f, dir_path) ==
    IF \E d \in Ancestors(dir_path) \cup {dir_path} :
          d \in DOMAIN f /\ ~is_dir(f, d)
    THEN f
    ELSE mkdir(f, dir_path)

\* what the command of line 137 does when the script is run: mv moves into
\* a target that is a directory; it fails when the source is missing, when
\* the target's directory is, when the target is a directory, and when
\* source and target are one file; otherwise it renames over whatever the
\* target is
sh_mv(f, src, dest) ==
    LET target == IF is_dir(f, dest) THEN Join(dest, PathName(src)) ELSE dest IN
    IF \/ src \notin DOMAIN f
       \/ ~is_dir(f, PathParent(target))
       \/ is_dir(f, target)
       \/ target = src
    THEN f
    ELSE shutil_move(f, src, target)

\* the tree after the mkdir commands for the directories ds, run in order
RECURSIVE RunMkdirs(_, _)
RunMkdirs(f, ds) ==
    IF ds = <<>> THEN f
    ELSE RunMkdirs(sh_mkdir_p(f, Head(ds)), Tail(ds))

\* the tree after the mv commands for the pairs ms, run in order
RECURSIVE RunMoves(_, _)
RunMoves(f, ms) ==
    IF ms = <<>> THEN f
    ELSE RunMoves(sh_mv(f, Head(ms)[1], Head(ms)[2]), Tail(ms))

\* the trees the Compliance Scanner is run on
MaxScanFiles == 3   \* files in the scanned tree

NotADate == <<"n", "o", "t", "-", "a", "-", "d", "a", "t", "e">>
Date1345 == <<"2", "0", "2", "4", "-", "1", "3", "-", "4", "5">>
Date15clip_insv == <<"2", "0", "2", "4", "-", "0", "1", "-", "1", "5", "-", "c", "l", "i", "p", ".", "i", "n", "s", "v">>

\* the files a scanned tree is drawn from
ScanUniverse ==
    { <<SRC, Date15, video_insv>>,
      <<SRC, Date15, Camera01, video_insv>>,
      <<SRC, Date15, insta360, video_insv>>,
      <<SRC, Date15, insta360, video_lrv, video_lrv>>,
      <<SRC, Date15, notes_txt>>,
      <<SRC, Date15Trip, Camera01, video_insv>>,
      <<SRC, Date15B, insta360, Camera01, video_lrv>>,
      <<SRC, Date1345, video_insv>>,
      <<SRC, NotADate, Date15, video_insv>>,
      <<SRC, Date150, Date15, insta360, video_insv>>,
      <<SRC, video_insv>>,
      <<SRC, Date15clip_insv>> }

\* the tree that holds the files srcs and the directories above them
ScanTree(srcs) ==
    LET allDirs == {source_directory} \cup UNION { Ancestors(p) : p \in srcs }
    IN  [p \in allDirs \cup srcs |->
            IF p \in srcs THEN FileEntry(1, p, Noon15, FALSE, 0) ELSE DirEntry]

InitScan ==
    /\ \E srcs \in SUBSET ScanUniverse :
          /\ Cardinality(srcs) <= MaxScanFiles
          /\ fs = ScanTree(srcs)
    /\ fs0 = fs
    /\ approve = FALSE
    /\ move = FALSE
    /\ pc = "scan_start"
    /\ files = <<>>
    /\ idx = 1
    /\ to_copy = <<>>
    /\ skipped = <<>>
    /\ total_size = 0
    /\ exit_code = <<>>
    /\ run = 1
    /\ prev = NoPrev
    /\ arg = <<>>
    /\ ret = <<>>
    /\ dirs_to_create = {}
    /\ moves = <<>>
    /\ out = <<>>

\* lines 81-100: the warning, the files, the exit when there are none
ScanStart ==
    /\ pc = "scan_start"
    /\ \E order \in Orders(fix_structure_collected(fs, source_directory)) :
          /\ files' = order
          /\ IF order = <<>>
             THEN /\ pc' = "done"
                  /\ exit_code' = <<0>>
                  /\ out' = out \o Warning(fs, source_directory)
                            \o <<Line("err", "no_files", <<>>, NO_FILES_TEXT)>>
             ELSE /\ pc' = "scan_plan"
                  /\ exit_code' = exit_code
                  /\ out' = out \o Warning(fs, source_directory)
    /\ idx' = 1
    /\ dirs_to_create' = {}
    /\ moves' = <<>>
    /\ UNCHANGED <<fs, approve, move, to_copy, skipped, total_size, run, fs0,
                   prev, arg, ret>>

\* lines 102-118: one iteration of the loop over the files
ScanFile ==
    /\ pc = "scan_plan"
    /\ idx <= Len(files)
    /\ LET file_path   == files[idx]
           date_folder == get_date_folder(file_path, source_directory)
           target_dir  == Join(date_folder, insta360)
           target_path == Join(target_dir, PathName(file_path))
       IN  IF date_folder = NoFolder
           THEN UNCHANGED <<dirs_to_create, moves>>
           ELSE IF is_compliant(file_path, date_folder)
           THEN UNCHANGED <<dirs_to_create, moves>>
           ELSE /\ dirs_to_create' = dirs_to_create \cup {target_dir}
                /\ moves' = Append(moves, <<file_path, target_path>>)
    /\ idx' = idx + 1
    /\ UNCHANGED <<fs, approve, move, pc, files, to_copy, skipped, total_size,
                   exit_code, run, fs0, prev, arg, ret, out>>

\* lines 120-127: the exit when nothing moves, or the head of the script
ScanHeader ==
    /\ pc = "scan_plan"
    /\ idx > Len(files)
    /\ IF moves = <<>>
       THEN /\ pc' = "done"
            /\ exit_code' = <<0>>
            /\ out' = Append(out, Line("err", "all_compliant", <<>>,
                                       ALL_COMPLIANT_TEXT))
       ELSE /\ pc' = "scan_mkdir"
            /\ exit_code' = exit_code
            /\ out' = out \o <<Line("out", "shebang", <<>>, SHEBANG_TEXT),
                               Line("out", "set_x", <<>>, SET_X_TEXT),
                               Line("out", "blank", <<>>, <<>>)>>
    /\ idx' = 1
    /\ UNCHANGED <<fs, approve, move, files, to_copy, skipped, total_size,
                   run, fs0, prev, arg, ret, dirs_to_create, moves>>

\* lines 130-131: one mkdir line
EmitMkdir ==
    /\ pc = "scan_mkdir"
    /\ idx <= Cardinality(dirs_to_create)
    /\ LET dir_path == SortedPaths(dirs_to_create)[idx] IN
       out' = Append(out, Line("out", "mkdir", <<dir_path>>,
                               MKDIR_TEXT \o shell_quote(dir_path)))
    /\ idx' = idx + 1
    /\ UNCHANGED <<fs, approve, move, pc, files, to_copy, skipped, total_size,
                   exit_code, run, fs0, prev, arg, ret, dirs_to_create, moves>>

\* line 133: the empty line between the two groups
EndMkdir ==
    /\ pc = "scan_mkdir"
    /\ idx > Cardinality(dirs_to_create)
    /\ out' = Append(out, Line("out", "blank", <<>>, <<>>))
    /\ pc' = "scan_mv"
    /\ idx' = 1
    /\ UNCHANGED <<fs, approve, move, files, to_copy, skipped, total_size,
                   exit_code, run, fs0, prev, arg, ret, dirs_to_create, moves>>

\* lines 136-137: one mv line
EmitMv ==
    /\ pc = "scan_mv"
    /\ idx <= Len(moves)
    /\ LET pair == SortedMoves(moves)[idx]
           src  == pair[1]
           dest == pair[2]
       IN  out' = Append(out, Line("out", "mv", <<src, dest>>,
                                   MV_TEXT \o shell_quote(src) \o <<" ">>
                                           \o shell_quote(dest)))
    /\ idx' = idx + 1
    /\ UNCHANGED <<fs, approve, move, pc, files, to_copy, skipped, total_size,
                   exit_code, run, fs0, prev, arg, ret, dirs_to_create, moves>>

\* lines 139-140: the empty line, the count, and main returns
ScanFinish ==
    /\ pc = "scan_mv"
    /\ idx > Len(moves)
    /\ out' = out \o <<Line("out", "blank", <<>>, <<>>),
                       Line("err", "count", <<>>,
                            <<"#", " ">> \o IntStr(Len(moves)) \o COUNT_TEXT)>>
    /\ pc' = "done"
    /\ exit_code' = <<0>>
    /\ UNCHANGED <<fs, approve, move, files, idx, to_copy, skipped, total_size,
                   run, fs0, prev, arg, ret, dirs_to_create, moves>>

NextScan ==
    \/ ScanStart \/ ScanFile \/ ScanHeader
    \/ EmitMkdir \/ EndMkdir \/ EmitMv \/ ScanFinish

SpecScan == InitScan /\ [][NextScan]_vars

-----------------------------------------------------------------------------
(* Properties of the Organizer *)

\* the candidate set of section 4.5 in the tree f: the managed files under the
\* source directory outside any MISC directory
Candidates(f) ==
    { p \in collected(f, source_directory) : ~is_in_excluded_folder(p) }

\* two distinct members of S have the same full filename
HasDuplicateNames(S) ==
    \E p, q \in S : p # q /\ PathName(p) = PathName(q)

\* the date string the Date Resolver gives file p of tree f
DateStringOf(f, p) == strftime(get_file_date(p, stat(f, p)))

\* the elements of a sequence
Range(q) == { q[i] : i \in 1..Len(q) }

\* C1: whenever two distinct candidate source paths share the same full
\* filename, the run ends with exit status 1 and the filesystem is as the run
\* found it, with and without --approve.
C1_DuplicateNamesAbort ==
    (pc = "done" /\ HasDuplicateNames(Candidates(fs0)))
        => (exit_code = <<1>> /\ fs = fs0)

\* C2: when exactly one directory under the destination carries a file's
\* date, the file's destination is <that directory>/insta360/<filename>, and
\* the run leaves that directory the only one carrying the date.
C2_ExistingDateFolderUsed ==
    /\ \A t \in Range(to_copy) :
          LET found == find_date_folder(fs0, destination_directory,
                                        DateStringOf(fs0, t[1]))
          IN  found.result = "SingleMatch"
                => \E d \in found.paths :
                      t[2] = Join(Join(d, insta360), PathName(t[1]))
    /\ \A p \in Candidates(fs0) :
          LET date_string == DateStringOf(fs0, p) IN
          Cardinality(date_folder_matches(fs0, destination_directory, date_string)) = 1
            => date_folder_matches(fs, destination_directory, date_string)
                 = date_folder_matches(fs0, destination_directory, date_string)

\* C3: if two or more directories under the destination carry the date of
\* some candidate file, the run ends with exit status 1 and the filesystem is
\* as the run found it.
C3_AmbiguousDateFolderAborts ==
    (/\ pc = "done"
     /\ \E p \in Candidates(fs0) :
           find_date_folder(fs0, destination_directory,
                            DateStringOf(fs0, p)).result = "MultipleMatch")
        => (exit_code = <<1>> /\ fs = fs0)

\* C4: a managed file with a directory named MISC among its ancestors is
\* never collected, scheduled or counted as skipped.
C4_MiscExcluded ==
    /\ \A p \in Range(files) : ~is_in_excluded_folder(p)
    /\ \A t \in Range(to_copy) : ~is_in_excluded_folder(t[1])
    /\ \A p \in Range(skipped) : ~is_in_excluded_folder(p)

\* C5: in a run without --approve the filesystem stays as the run found it,
\* whatever --move is.
C5_DryRunChangesNothing ==
    ~approve => fs = fs0

\* a dry run with --move has gone through a list of scheduled transfers
C5_Witness ==
    /\ ~approve /\ move
    /\ pc = "done"
    /\ Len(to_copy) = MaxFiles

\* C6: the second of two runs in a row with --approve and without --move
\* schedules no transfer and skips every one of the N candidate files.
C6_SecondRunSkipsAll ==
    (/\ run = 2
     /\ pc \in {"process", "done"}
     /\ prev.approve /\ ~prev.move
     /\ approve /\ ~move)
        => (/\ Len(to_copy) = 0
            /\ Len(skipped) = Len(prev.files)
            /\ Len(files) = Len(prev.files))

\* the files the planning loop has been through
Planned ==
    { files[i] : i \in { k \in 1..Len(files) : pc = "plan" => k < idx } }

\* C7: a transfer of a source file is scheduled iff its destination does not
\* exist or has another size than the source; the file is skipped iff the
\* destination exists with the same size.
C7_SkipDecision ==
    \A src \in Planned :
        LET dest    == dest_path_of(fs0, destination_directory, src)
            present == dest \in DOMAIN fs0
        IN  /\ (<<src, dest>> \in Range(to_copy))
                 <=> (~present \/ fs0[dest].size # fs0[src].size)
            /\ (src \in Range(skipped))
                 <=> (present /\ fs0[dest].size = fs0[src].size)
            /\ (src \in Range(skipped)) # (\E t \in Range(to_copy) : t[1] = src)

\* one file has been skipped and one scheduled over a destination of another size
C7_Witness ==
    /\ pc = "process"
    /\ Len(skipped) = 1
    /\ \E t \in Range(to_copy) :
          t[2] \in DOMAIN fs0 /\ fs0[t[2]].size # fs0[t[1]].size

-----------------------------------------------------------------------------
(* Properties of should_copy *)

\* the two paths lead to one file
SameFile(f, a, b) == exists(f, a) /\ exists(f, b) /\ Resolve(f, a) = Resolve(f, b)

\* C8: when the destination is the same underlying file as the source (the
\* same path, or a symbolic link that resolves to the source), should_copy
\* returns False.
C8_SameFileNotCopied ==
    (ret # <<>> /\ SameFile(fs, arg.src, arg.dest)) => ret = <<FALSE>>

\* should_copy has returned False for a symbolic link that resolves to the source
C8_Witness ==
    /\ ret = <<FALSE>>
    /\ arg.dest # arg.src
    /\ arg.dest \in DOMAIN fs
    /\ fs[arg.dest].kind = "link"
    /\ fs[arg.dest].target = arg.src

-----------------------------------------------------------------------------
(* Properties of the Date Resolver *)

\* the three prefixes of the naming convention
CameraPrefixes == { <<"V", "I", "D">>, <<"L", "R", "V">>, <<"I", "M", "G">> }

\* the name of the call starts with a camera prefix, "_", eight digits and "_"
NameFollowsConvention == arg.prefix \in CameraPrefixes /\ arg.sep = "_"

\* the calendar dates of the timestamps of a stat result
StampDates(st) ==
    { k[2] : k \in { k \in KnownStamps :
                        k[1] = st.mtime \/ (st.has_birthtime /\ k[1] = st.birthtime) } }

\* C9: for a name that follows the convention with the digits of a calendar
\* date, the resolved date is that date, whatever the file's timestamps are.
C9_FilenameDateWins ==
    (ret # <<>> /\ NameFollowsConvention /\ arg.token \in CalendarTokens)
        => ret[1] = arg.token

\* the name carries 2024-02-29 and both timestamps fall on other days
C9_Witness ==
    /\ ret # <<>>
    /\ NameFollowsConvention
    /\ arg.token = MkDate(2024, 2, 29)
    /\ arg.stat.has_birthtime /\ arg.stat.birthtime # 0
    /\ arg.token \notin StampDates(arg.stat)
    /\ ret[1] = arg.token

\* C10: for a name that follows the convention with digits that are no
\* calendar date, the call does not raise: it returns the date of a
\* filesystem timestamp of the file.
C10_InvalidDateFallsBack ==
    (ret # <<>> /\ NameFollowsConvention /\ arg.token \in NonCalendarTokens)
        => (ret[1] # ValueError /\ ret[1] \in StampDates(arg.stat))

\* the name carries 2024-02-30 and the call returned the day of the mtime
C10_Witness ==
    /\ ret # <<>>
    /\ NameFollowsConvention
    /\ arg.token = MkDate(2024, 2, 30)
    /\ ~arg.stat.has_birthtime
    /\ arg.stat.mtime = Noon15 + 86400
    /\ ret[1] = MkDate(2024, 1, 16)

-----------------------------------------------------------------------------
(* Properties of the Folder Matcher *)

\* the name nm is the date, or the date and then a space or a hyphen
CarriesDate(nm, ds) ==
    \/ nm = ds
    \/ /\ Len(nm) > Len(ds)
       /\ SubSeq(nm, 1, Len(ds)) = ds
       /\ nm[Len(ds) + 1] \in {" ", "-"}

\* the directories directly under the root of the call whose name carries
\* the date of the call
DirsCarryingDate ==
    { p \in DOMAIN fs : /\ Len(p) = Len(arg.root) + 1
                        /\ SubSeq(p, 1, Len(arg.root)) = arg.root
                        /\ fs[p].kind = "dir"
                        /\ CarriesDate(p[Len(p)], arg.date_string) }

\* C11: find_date_folder(root, date_string) looks only at the directories
\* directly under root whose name is date_string or date_string followed by a
\* space or a hyphen (files are ignored): with none of them it returns the
\* default path root/date_string, with one that directory, with two or more
\* the list of all of them.
C11_FindDateFolder ==
    (arg.fn = "find_date_folder" /\ ret # <<>>) =>
        LET n == Cardinality(DirsCarryingDate) IN
        /\ n = 0 => ret[1] = [result |-> "NoMatch",
                              paths |-> {arg.root \o <<arg.date_string>>}]
        /\ n = 1 => ret[1] = [result |-> "SingleMatch",
                              paths |-> DirsCarryingDate]
        /\ n >= 2 => ret[1] = [result |-> "MultipleMatch",
                               paths |-> DirsCarryingDate]

\* a call that returned the list of two directories although a regular file
\* and a directory whose names begin with the date without carrying it lie
\* next to them
C11_Witness ==
    /\ arg.fn = "find_date_folder" /\ ret # <<>>
    /\ arg.date_string = Date15
    /\ ret[1].result = "MultipleMatch"
    /\ ret[1].paths = { <<DST, Date15Trip>>, <<DST, Date15B>> }
    /\ <<DST, Date150>> \in DOMAIN fs /\ fs[<<DST, Date150>>].kind = "dir"
    /\ <<DST, Date15file_txt>> \in DOMAIN fs
    /\ <<DST, Date15>> \in DOMAIN fs /\ fs[<<DST, Date15>>].kind = "file"

-----------------------------------------------------------------------------
(* Properties of the Classifier *)

\* the managed extensions and the managed name, as the specification lists them
ManagedExtensions == { <<".", "i", "n", "s", "v">>, <<".", "i", "n", "s", "p">>, <<".", "l", "r", "v">> }
ManagedName == <<"f", "i", "l", "e", "i", "n", "f", "o", "_", "l", "i", "s", "t", ".", "l", "i", "s", "t">>

\* C12: in both tools is_insta360_file(path) is true iff the lower-cased
\* extension of the final name is .insv, .insp or .lrv, or the final name is
\* exactly fileinfo_list.list; VIDEO.INSV, video.insv and fileinfo_list.list
\* are managed, other.list and FILEINFO_LIST.LIST are not.
C12_Classifier ==
    (arg.fn = "is_insta360_file" /\ ret # <<>>) =>
        /\ ret[1] = (\/ lower(arg.ext) \in ManagedExtensions
                     \/ arg.name = ManagedName)
        /\ arg.name \in { <<"V", "I", "D", "E", "O", ".", "I", "N", "S", "V">>, <<"v", "i", "d", "e", "o", ".", "i", "n", "s", "v">>, ManagedName } => ret[1] = TRUE
        /\ arg.name \in { <<"o", "t", "h", "e", "r", ".", "l", "i", "s", "t">>, <<"F", "I", "L", "E", "I", "N", "F", "O", "_", "L", "I", "S", "T", ".", "L", "I", "S", "T">> } => ret[1] = FALSE

\* the Compliance Scanner's classifier has refused FILEINFO_LIST.LIST
C12_Witness ==
    /\ arg.fn = "is_insta360_file"
    /\ arg.tool = "fix_structure"
    /\ arg.name = <<"F", "I", "L", "E", "I", "N", "F", "O", "_", "L", "I", "S", "T", ".", "L", "I", "S", "T">>
    /\ ret = <<FALSE>>

-----------------------------------------------------------------------------
(* Properties of the Compliance Scanner *)

\* the name is YYYY-MM-DD, alone or followed by a space or a hyphen and more
DateNamed(nm) ==
    /\ Len(nm) >= 10
    /\ \A i \in {1, 2, 3, 4, 6, 7, 9, 10} : nm[i] \in Range(Digits)
    /\ nm[5] = "-" /\ nm[8] = "-"
    /\ CarriesDate(nm, SubSeq(nm, 1, 10))

\* the managed regular files of the scanned tree
ManagedFiles ==
    { p \in DOMAIN fs : /\ fs[p].kind = "file"
                        /\ Len(p) > Len(source_directory)
                        /\ fix_structure_is_insta360_file(p) }

\* the loop over the files is over: dirs_to_create and moves are the plan
PlanComplete ==
    \/ pc = "scan_plan" /\ idx > Len(files)
    \/ pc \in {"scan_mkdir", "scan_mv"}
    \/ pc = "done" /\ files # <<>>

\* the positions of `moves` whose source is p
MovesOf(p) == { i \in 1..Len(moves) : moves[i][1] = p }

\* C13: a managed file under a top-level date folder D is left out of the
\* plan iff its direct parent is exactly D/insta360; otherwise the plan has
\* exactly one move of it, to D/insta360/<its name>, and D/insta360 is among
\* the directories to create; so a file at D/insta360/sub/x is moved up.
C13_PlanOfDateFolderFiles ==
    PlanComplete =>
        \A p \in ManagedFiles :
            LET D == SubSeq(p, 1, Len(source_directory) + 1) IN
            (Len(p) > Len(D) /\ fs[D].kind = "dir" /\ DateNamed(D[Len(D)])) =>
                IF SubSeq(p, 1, Len(p) - 1) = D \o <<insta360>>
                THEN MovesOf(p) = {}
                ELSE /\ Cardinality(MovesOf(p)) = 1
                     /\ \A i \in MovesOf(p) :
                           moves[i][2] = D \o <<insta360, p[Len(p)]>>
                     /\ D \o <<insta360>> \in dirs_to_create

\* a finished scan of a tree with a file in 2024-01-15/insta360 and a file
\* in 2024-01-15-B/insta360/Camera01: only the second is in the plan
C13_Witness ==
    /\ pc = "done"
    /\ <<SRC, Date15, insta360, video_insv>> \in ManagedFiles
    /\ <<SRC, Date15B, insta360, Camera01, video_lrv>> \in ManagedFiles
    /\ moves = << << <<SRC, Date15B, insta360, Camera01, video_lrv>>,
                     <<SRC, Date15B, insta360, video_lrv>> >> >>
    /\ dirs_to_create = { <<SRC, Date15B, insta360>> }
\* C14: the date folder of a file is decided by the first path segment below
\* source_root alone: a managed file whose first segment is not YYYY-MM-DD
\* with an optional space- or hyphen-separated suffix (no calendar check) is
\* the source of no move and causes no error, whatever lies below that segment.
C14_FirstSegmentDecides ==
    /\ exit_code # <<>> => exit_code = <<0>>
    /\ PlanComplete =>
          /\ \A p \in ManagedFiles :
                ~DateNamed(p[Len(source_directory) + 1]) => MovesOf(p) = {}
          /\ \A i \in 1..Len(moves) :
                LET first == moves[i][1][Len(source_directory) + 1] IN
                /\ DateNamed(first)
                /\ moves[i][2] = source_directory
                                 \o <<first, insta360, PathName(moves[i][1])>>

\* a finished scan that moved the file of 2024-13-45 and neither the file of
\* not-a-date/2024-01-15 nor the one of 2024-01-150/2024-01-15/insta360
C14_Witness ==
    /\ pc = "done"
    /\ exit_code = <<0>>
    /\ <<SRC, NotADate, Date15, video_insv>> \in ManagedFiles
    /\ <<SRC, Date150, Date15, insta360, video_insv>> \in ManagedFiles
    /\ moves = << << <<SRC, Date1345, video_insv>>,
                     <<SRC, Date1345, insta360, video_insv>> >> >>

-----------------------------------------------------------------------------
(* More properties of the Organizer *)

\* C15: a run whose candidates have pairwise distinct full filenames never
\* ends with the duplicate-filename error (exit status 1), also when
\* candidates share a stem (video.insv and video.lrv); each candidate is then
\* scheduled under its own full filename, unless its destination is already
\* there with the same size.
C15_DistinctNamesScheduled ==
    (pc \in {"process", "done"} /\ ~HasDuplicateNames(Candidates(fs0))) =>
        /\ exit_code # <<1>>
        /\ \A p \in Candidates(fs0) :
              LET dest == destination_directory
                          \o <<DateStringOf(fs0, p), insta360, p[Len(p)]>>
              IN  \/ <<p, dest>> \in Range(to_copy)
                  \/ /\ dest \in DOMAIN fs0
                     /\ fs0[dest].size = fs0[p].size
                     /\ p \in Range(skipped)
        /\ \A t, u \in Range(to_copy) :
              (t[1] # u[1] /\ {t[1], u[1]} \subseteq Candidates(fs0))
                  => t[2] # u[2]

\* a finished run that scheduled Camera01/video.insv and Camera01/video.lrv
C15_Witness ==
    /\ pc = "done"
    /\ exit_code = <<0>>
    /\ Candidates(fs0) = { <<SRC, Camera01, video_insv>>,
                           <<SRC, Camera01, video_lrv>> }
    /\ { t[1] : t \in Range(to_copy) } = Candidates(fs0)
    /\ Len(to_copy) = 2
\* C16: after a run with --approve every scheduled transfer's destination
\* file exists with the content of its source and below directories that
\* exist; with --move the source is gone, without it the source is as it was.
C16_ApprovedTransfersDone ==
    (pc = "done" /\ approve) =>
        \A t \in Range(to_copy) :
            LET src == t[1]
                dest == t[2]
            IN  /\ dest \in DOMAIN fs
                /\ fs[dest].kind = "file"
                /\ fs[dest].content = fs0[src].content
                /\ fs[dest].size = fs0[src].size
                /\ \A d \in Ancestors(dest) : d \in DOMAIN fs /\ fs[d].kind = "dir"
                /\ move => src \notin DOMAIN fs
                /\ ~move => src \in DOMAIN fs /\ fs[src] = fs0[src]
\* the first position at which two sequences differ, or the position after
\* the shorter one
FirstDiff(a, b) ==
    CHOOSE k \in 1..(Len(a) + 1) :
        /\ \A i \in 1..(k - 1) : i <= Len(b) /\ a[i] = b[i]
        /\ k > Len(a) \/ k > Len(b) \/ a[k] # b[k]

\* string a is before string b in the lexicographic order of the code points
StringBefore(a, b) ==
    LET k == FirstDiff(a, b) IN
    IF k > Len(a) THEN k <= Len(b)
    ELSE IF k > Len(b) THEN FALSE
    ELSE ord(a[k]) < ord(b[k])

\* path p is before path q when the two are compared component by component
ComponentsBefore(p, q) ==
    LET k == FirstDiff(p, q) IN
    IF k > Len(p) THEN k <= Len(q)
    ELSE IF k > Len(q) THEN FALSE
    ELSE StringBefore(p[k], q[k])

\* the positions of the lines of one command
LinesOf(cmd) == { i \in 1..Len(out) : out[i].cmd = cmd }

\* every mkdir line is before every mv line, and the script once complete
\* creates dirs_to_create and moves the sources of `moves`
MkdirThenMv ==
    /\ \A i \in LinesOf("mkdir"), j \in LinesOf("mv") : i < j
    /\ (pc = "done" /\ moves # <<>>) =>
          /\ { out[i].paths[1] : i \in LinesOf("mkdir") } = dirs_to_create
          /\ { out[i].paths : i \in LinesOf("mv") } = Range(moves)
          /\ Cardinality(LinesOf("mv")) = Len(moves)

\* C17, as stated: every mkdir -p line is written before every mv line, the
\* mkdir lines in the lexicographic order of the directory path strings and
\* the mv lines in the lexicographic order of the source path strings.
C17_OutputOrderOfStrings ==
    /\ MkdirThenMv
    /\ \A c \in {"mkdir", "mv"} : \A i, j \in LinesOf(c) :
          i < j => StringBefore(PathStr(out[i].paths[1]),
                                PathStr(out[j].paths[1]))

\* C17, amended: every mkdir -p line is written before every mv line, the
\* mkdir lines in the order of the directory paths and the mv lines in the
\* order of the source paths, the paths compared component by component.
C17_OutputOrder ==
    /\ MkdirThenMv
    /\ \A c \in {"mkdir", "mv"} : \A i, j \in LinesOf(c) :
          i < j => ComponentsBefore(out[i].paths[1], out[j].paths[1])

\* a complete script whose lines for 2024-01-15 come before those for
\* "2024-01-15 Trip", whose path strings are the smaller ones
C17_Witness ==
    /\ pc = "done"
    /\ \E i, j \in LinesOf("mkdir") :
          /\ i < j
          /\ out[i].paths[1] = <<SRC, Date15, insta360>>
          /\ out[j].paths[1] = <<SRC, Date15Trip, insta360>>
          /\ StringBefore(PathStr(out[j].paths[1]), PathStr(out[i].paths[1]))
    /\ \E i, j \in LinesOf("mv") :
          /\ i < j
          /\ out[i].paths[1][2] = Date15
          /\ out[j].paths[1][2] = Date15Trip
\* the sources and the targets of the plan
MoveSources == { moves[i][1] : i \in 1..Len(moves) }
MoveTargets == { moves[i][2] : i \in 1..Len(moves) }

\* the sources and the targets of the plan are disjoint
SourcesTargetsDisjoint == PlanComplete => MoveSources \cap MoveTargets = {}

\* C18: in every plan the set of move sources and the set of move
\* destinations are disjoint, no destination of one move being the source of
\* another, so that running the moves in any order leaves the same tree.
C18_DisjointSoAnyOrder ==
    PlanComplete =>
        /\ MoveSources \cap MoveTargets = {}
        /\ LET made == RunMkdirs(fs, SortedPaths(dirs_to_create)) IN
           \A q \in Orders(Range(moves)) :
               RunMoves(made, q) = RunMoves(made, SortedMoves(moves))

-----------------------------------------------------------------------------
(* More properties of the Date Resolver *)

\* the calendar date a timestamp of the model falls on
DateOfStamp(ts) == (CHOOSE k \in KnownStamps : k[1] = ts)[2]

\* C19: for a file whose name gives no valid date, the resolved date is the
\* calendar date of the creation timestamp whenever the platform exposes
\* one, whatever its value (the epoch value 0 included), and the date of the
\* modification timestamp only when it exposes none.
C19_CreationTimePreferred ==
    (ret # <<>> /\ ~(NameFollowsConvention /\ arg.token \in CalendarTokens)) =>
        ret[1] = DateOfStamp(IF arg.stat.has_birthtime
                             THEN arg.stat.birthtime
                             ELSE arg.stat.mtime)

-----------------------------------------------------------------------------
(* Recovery of the Organizer *)

\* the destination section 4.5 gives candidate p of the tree f
DestOf(f, p) ==
    destination_directory \o <<DateStringOf(f, p), insta360, p[Len(p)]>>

\* the run that just ended is a complete --approve run that followed an
\* interrupted --approve copy run
RecoveredRun ==
    /\ pc = "done"
    /\ approve
    /\ ~prev.completed
    /\ prev.approve
    /\ ~prev.move
    /\ run > 1

\* C20: when an approved copy run was interrupted at any point, possibly
\* with one destination partially written, a following complete approved
\* run schedules and redoes every transfer whose destination is missing or
\* of another size, and afterwards every candidate's destination exists with
\* the size of its source.
C20_RecoveryAfterInterrupt ==
    RecoveredRun =>
        \A p \in Candidates(fs0) :
            LET dest == DestOf(fs0, p) IN
            /\ (dest \notin DOMAIN fs0 \/ fs0[dest].size # fs0[p].size)
                  => <<p, dest>> \in Range(to_copy)
            /\ dest \in DOMAIN fs
            /\ fs[dest].kind = "file"
            /\ fs[dest].size = fs0[p].size

-----------------------------------------------------------------------------
(* The plan of the Organizer and --approve *)

\* a completed run without --approve is followed by a run with --approve,
\* whose planning loop is over
ApprovedAfterDryRun ==
    /\ run = 2
    /\ ~prev.approve /\ prev.completed
    /\ approve
    /\ pc \in {"process", "done"}

\* C21: on one snapshot of source and destination the run with --approve
\* schedules the same transfers, skips the same files and adds up the same
\* size as the run without it (as lists when rglob yields the files in the
\* same order, as sets in any order); only the run with --approve executes
\* the transfers.
C21_PlanIndependentOfApprove ==
    ApprovedAfterDryRun =>
        /\ Range(to_copy) = Range(prev.to_copy)
        /\ Range(skipped) = Range(prev.skipped)
        /\ total_size = prev.total_size
        /\ files = prev.files =>
              (to_copy = prev.to_copy /\ skipped = prev.skipped)
        /\ (pc = "done" /\ to_copy # <<>>) => fs # fs0

\* after a dry run the run with --approve has listed the files in the same
\* order, skipped one, scheduled the other and executed the transfer
C21_Witness ==
    /\ ApprovedAfterDryRun
    /\ pc = "done"
    /\ files = prev.files
    /\ Len(to_copy) = 1 /\ to_copy = prev.to_copy
    /\ Len(skipped) = 1
    /\ total_size > 0
    /\ fs # fs0

-----------------------------------------------------------------------------
(* Running the script of the Compliance Scanner *)

\* the tree after the script of the plan has been run on the scanned tree
AfterScript == RunMoves(RunMkdirs(fs, SortedPaths(dirs_to_create)), SortedMoves(moves))

\* the contents of the regular files of a tree
Contents(f) == { f[p].content : p \in { q \in DOMAIN f : f[q].kind = "file" } }

\* the targets of the moves of the plan are pairwise distinct
TargetsDistinct ==
    \A i, j \in 1..Len(moves) : i # j => moves[i][2] # moves[j][2]

\* no target of a move of the plan exists in the scanned tree
TargetsFree == \A t \in MoveTargets : t \notin DOMAIN fs

\* the script main has printed is run on the scanned tree, and main is
\* invoked again on the same source_directory
RunScript ==
    /\ pc = "done"
    /\ moves # <<>>
    /\ run = 1
    /\ fs' = AfterScript
    /\ fs0' = fs'
    /\ run' = 2
    /\ pc' = "scan_start"
    /\ files' = <<>>
    /\ idx' = 1
    /\ exit_code' = <<>>
    /\ dirs_to_create' = {}
    /\ moves' = <<>>
    /\ out' = <<>>
    /\ UNCHANGED <<approve, move, to_copy, skipped, total_size, prev, arg, ret>>

NextRescan == NextScan \/ RunScript

SpecRescan == InitScan /\ [][NextRescan]_vars

\* C22: executing a plan never overwrites a file: the targets of the moves of
\* one plan are pairwise distinct, no target is a file that is already in the
\* insta360 directory of the date folder, and every file of the scanned tree
\* is still there, under some path, after the script has run.
C22_NoOverwrite ==
    PlanComplete =>
        /\ TargetsDistinct
        /\ TargetsFree
        /\ Contents(AfterScript) = Contents(fs)

\* C23: after all mkdir and mv commands of a plan have been executed on the
\* scanned tree, scanning the same source_root again yields an empty plan:
\* every managed file under a top-level date folder is then compliant.
C23_RescanFindsNothing ==
    (run = 2 /\ PlanComplete) =>
        /\ moves = <<>>
        /\ dirs_to_create = {}
        /\ \A p \in ManagedFiles :
              LET date_folder == get_date_folder(p, source_directory) IN
              (date_folder # NoFolder /\ is_dir(fs, date_folder))
                  => is_compliant(p, date_folder)

\* the paths of the tree that are not directories
NotDirs == { p \in DOMAIN fs : ~is_dir(fs, p) }

\* C24: for every move of a plan the date folder the target is built from is
\* a directory directly under source_root and a proper ancestor of the source
\* file; a managed file directly in source_root whose own name matches the
\* date-folder pattern is not taken for its own date folder, and no mkdir or
\* mv of the plan goes below a path that is a file.
C24_DateFolderIsAncestorDirectory ==
    PlanComplete =>
        /\ \A i \in 1..Len(moves) :
              LET date_folder == PathParent(PathParent(moves[i][2])) IN
              /\ PathParent(date_folder) = source_directory
              /\ is_dir(fs, date_folder)
              /\ date_folder \in Ancestors(moves[i][1])
        /\ \A p \in ManagedFiles :
              PathParent(p) = source_directory => MovesOf(p) = {}
        /\ \A d \in dirs_to_create : (Ancestors(d) \cup {d}) \cap NotDirs = {}
        /\ \A t \in MoveTargets : Ancestors(t) \cap NotDirs = {}
=============================================================================
